---- MODULE Spec2Model ----
(***************************************************************************)
(* Client record store of axanet-clientes: ClienteManager                  *)
(* (src/src/axanet/cliente_manager.py) over the data model Cliente /       *)
(* Servicio (src/src/axanet/modelos.py) and the exception classes of       *)
(* src/src/axanet/excepciones.py.                                          *)
(*                                                                         *)
(* A Python str is a sequence of one-character strings, so that stripping, *)
(* normalisation, the text encoding of a record and its decoding are       *)
(* computed character by character as the code computes them.  None and    *)
(* the empty string are both the empty sequence (both are falsy).          *)
(***************************************************************************)
EXTENDS Integers, Sequences, FiniteSets, TLC

(***************************************************************************)
(* Bounds of the model.                                                    *)
(***************************************************************************)
\* the caller makes at most this many calls of the store's methods, over all
\* the processes that work on the directory one after the other
MaxLlamadas == 2
\* datetime.now() takes the values 0..MaxReloj
MaxReloj == 1
\* normalizar_nombre is applied to every name of at most this many characters
MaxNombre == 3
\* the caller makes at most this many calls of the methods of the ClientManager
\* of services.py
MaxCalls == 3

(***************************************************************************)
(* Python str primitives, restricted to the characters the inputs use.     *)
(***************************************************************************)
Minusculas ==
    << "a", "b", "c", "d", "e", "f", "g", "h", "i", "j", "k", "l", "m",
       "n", "o", "p", "q", "r", "s", "t", "u", "v", "w", "x", "y", "z" >>

Mayusculas ==
    << "A", "B", "C", "D", "E", "F", "G", "H", "I", "J", "K", "L", "M",
       "N", "O", "P", "Q", "R", "S", "T", "U", "V", "W", "X", "Y", "Z" >>

Digitos == << "0", "1", "2", "3", "4", "5", "6", "7", "8", "9" >>

\* the characters str.strip() and str.split() treat as whitespace
Espacios == { " ", "\t", "\n" }

Rango(s) == { s[i] : i \in 1..Len(s) }

SetMinusculas == Rango(Minusculas)

SetMayusculas == Rango(Mayusculas)

SetDigitos == Rango(Digitos)

Indice(s, c) == CHOOSE i \in 1..Len(s) : s[i] = c

lower_c(c) == IF c \in SetMayusculas THEN Minusculas[Indice(Mayusculas, c)] ELSE c

upper_c(c) == IF c \in SetMinusculas THEN Mayusculas[Indice(Minusculas, c)] ELSE c

RECURSIVE lower(_)
lower(s) == IF s = << >> THEN << >> ELSE << lower_c(Head(s)) >> \o lower(Tail(s))

RECURSIVE upper(_)
upper(s) == IF s = << >> THEN << >> ELSE << upper_c(Head(s)) >> \o upper(Tail(s))

RECURSIVE lstrip(_, _)
lstrip(s, cs) == IF s # << >> /\ Head(s) \in cs THEN lstrip(Tail(s), cs) ELSE s

RECURSIVE rstrip(_, _)
rstrip(s, cs) ==
    IF s # << >> /\ s[Len(s)] \in cs THEN rstrip(SubSeq(s, 1, Len(s) - 1), cs) ELSE s

\* str.strip()
strip(s) == rstrip(lstrip(s, Espacios), Espacios)

\* str.replace(a, b) for one-character a and b
RECURSIVE replace(_, _, _)
replace(s, a, b) ==
    IF a \notin Rango(s) THEN s
    ELSE << IF Head(s) = a THEN b ELSE Head(s) >> \o replace(Tail(s), a, b)

\* re.sub(r'[^...]', '', s): keep the characters of the class
re_sub_fuera(s, clase) == SelectSeq(s, LAMBDA c : c \in clase)

startswith(s, p) == Len(s) >= Len(p) /\ SubSeq(s, 1, Len(p)) = p

Primero(s, c) == CHOOSE i \in 1..Len(s) : s[i] = c /\ \A j \in 1..(i - 1) : s[j] # c

Ultimo(s, c) == CHOOSE i \in 1..Len(s) : s[i] = c /\ \A j \in (i + 1)..Len(s) : s[j] # c

\* str.split(sep) for a one-character sep
RECURSIVE split(_, _)
split(s, sep) ==
    IF sep \in Rango(s)
    THEN << SubSeq(s, 1, Primero(s, sep) - 1) >>
             \o split(SubSeq(s, Primero(s, sep) + 1, Len(s)), sep)
    ELSE << s >>

\* str.split(sep, 1)[1], for s that contains sep
split1_1(s, sep) == SubSeq(s, Primero(s, sep) + 1, Len(s))

\* str.rsplit(sep, 1), for s that contains sep
rsplit1(s, sep) == << SubSeq(s, 1, Ultimo(s, sep) - 1), SubSeq(s, Ultimo(s, sep) + 1, Len(s)) >>

\* str.split(): the maximal runs of non-whitespace characters
RECURSIVE split_ws(_)
split_ws(s) ==
    LET t == lstrip(s, Espacios)
        fin == IF \E i \in 1..Len(t) : t[i] \in Espacios
               THEN (CHOOSE i \in 1..Len(t) :
                        t[i] \in Espacios /\ \A j \in 1..(i - 1) : t[j] \notin Espacios) - 1
               ELSE Len(t)
    IN IF t = << >> THEN << >>
       ELSE << SubSeq(t, 1, fin) >> \o split_ws(SubSeq(t, fin + 1, Len(t)))

\* "\n".join(lineas)
RECURSIVE join_nl(_)
join_nl(lineas) ==
    IF lineas = << >> THEN << >>
    ELSE IF Len(lineas) = 1 THEN lineas[1]
    ELSE lineas[1] \o << "\n" >> \o join_nl(Tail(lineas))

\* the characters of the model in the order of their code points
CodigosAscendentes ==
    << "\t", "\n", " ", "%", "(", ")", "+", "-", "." >> \o Digitos \o << ":", "@" >>
        \o Mayusculas \o << "_" >> \o Minusculas
        \o << "á", "ç", "é", "í", "ñ", "ó", "ú" >>

\* ord(c), up to an increasing map
ord(c) == Indice(CodigosAscendentes, c)

\* a < b for str
RECURSIVE menor(_, _)
menor(a, b) ==
    IF b = << >> THEN FALSE
    ELSE IF a = << >> THEN TRUE
    ELSE IF Head(a) = Head(b) THEN menor(Tail(a), Tail(b))
    ELSE ord(Head(a)) < ord(Head(b))

(***************************************************************************)
(* datetime.now().strftime(...) at clock value t.                          *)
(***************************************************************************)
\* "%Y-%m-%d"
strftime_fecha(t) == << "2", "0", "2", "6", "-", "1", "1", "-", "0", "5" >>

\* "%Y-%m-%d %H:%M:%S"
strftime_fecha_hora(t) ==
    strftime_fecha(t) \o << " ", "1", "9", ":", "0", "0", ":", "0", Digitos[t + 1] >>

\* "%Y%m%d%H%M%S"
strftime_sello(t) ==
    << "2", "0", "2", "6", "1", "1", "0", "5", "1", "9", "0", "0", "0", Digitos[t + 1] >>

(***************************************************************************)
(* excepciones.py: the exception that reaches the caller when a raise      *)
(* statement builds an exception of the class.  A constructor called with  *)
(* arguments its signature does not accept raises TypeError instead.       *)
(***************************************************************************)
\* ClienteError.__init__(self, mensaje, nombre_cliente): both are required
ClienteError(clase, n_posicionales) ==
    IF n_posicionales = 2 THEN clase ELSE "TypeError"

\* ClienteNoEncontradoError.__init__ calls super().__init__(mensaje, nombre_cliente)
ClienteNoEncontradoError == ClienteError("ClienteNoEncontradoError", 2)

\* ClienteExisteError.__init__ calls super().__init__(mensaje, nombre_cliente)
ClienteExisteError == ClienteError("ClienteExisteError", 2)

\* ErrorValidacion.__init__(self, campo, motivo) calls super().__init__(mensaje);
\* kw are the keyword arguments of the raise statement
ErrorValidacion(kw) ==
    IF kw = { "campo", "motivo" } THEN ClienteError("ErrorValidacion", 1) ELSE "TypeError"

\* ErrorArchivo.__init__(self, operacion, nombre_archivo, motivo) calls
\* super().__init__(mensaje)
ErrorArchivo(kw) ==
    IF kw = { "operacion", "nombre_archivo", "motivo" }
    THEN ClienteError("ErrorArchivo", 1)
    ELSE "TypeError"

(***************************************************************************)
(* modelos.py: Servicio and Cliente.                                       *)
(***************************************************************************)
\* Servicio.__init__(descripcion, fecha_solicitud) at clock value t
Servicio(descripcion, fecha_solicitud, t) ==
    [ descripcion |-> strip(descripcion),
      fecha_solicitud |->
          IF fecha_solicitud # << >> THEN fecha_solicitud ELSE strftime_fecha_hora(t) ]

\* the replacement table of nombre_normalizado, in dict order
reemplazos ==
    << << "á", "a" >>, << "é", "e" >>, << "í", "i" >>, << "ó", "o" >>, << "ú", "u" >>,
       << "ñ", "n" >>, << "ç", "c" >>, << " ", "_" >> >>

RECURSIVE aplicar_reemplazos(_, _)
aplicar_reemplazos(s, tabla) ==
    IF tabla = << >> THEN s
    ELSE aplicar_reemplazos(replace(s, tabla[1][1], tabla[1][2]), Tail(tabla))

\* [a-z0-9_]
clase_clave == SetMinusculas \cup SetDigitos \cup { "_" }

\* Cliente.nombre_normalizado, of the stored (stripped) nombre
nombre_normalizado(nombre) ==
    re_sub_fuera(aplicar_reemplazos(lower(nombre), reemplazos), clase_clave)

\* re.sub(r'[^\d]', '', telefono)
telefono_limpio(telefono) == re_sub_fuera(telefono, SetDigitos)

\* [a-zA-Z]
Letras == SetMinusculas \cup SetMayusculas

\* [a-zA-Z0-9._%+-]
clase_local == Letras \cup SetDigitos \cup { ".", "_", "%", "+", "-" }

\* [a-zA-Z0-9.-]
clase_dominio == Letras \cup SetDigitos \cup { ".", "-" }

\* re.match(r'^[a-zA-Z0-9._%+-]+@[a-zA-Z0-9.-]+\.[a-zA-Z]{2,}$', email)
patron_email(email) ==
    \E i, j \in 1..Len(email) :
        /\ 1 < i /\ i + 1 < j /\ j + 2 <= Len(email)
        /\ email[i] = "@" /\ email[j] = "."
        /\ \A k \in 1..(i - 1) : email[k] \in clase_local
        /\ \A k \in (i + 1)..(j - 1) : email[k] \in clase_dominio
        /\ \A k \in (j + 1)..Len(email) : email[k] \in Letras

\* Cliente.validar_datos on the stripped fields: "" or the exception raised
validar_datos(nombre, telefono, email) ==
    IF nombre = << >> \/ Len(strip(nombre)) < 2
    THEN ErrorValidacion({ "campo", "valor", "motivo" })
    ELSE IF Len(telefono_limpio(telefono)) # 10
    THEN ErrorValidacion({ "campo", "valor", "motivo" })
    ELSE IF ~patron_email(email)
    THEN ErrorValidacion({ "campo", "valor", "motivo" })
    ELSE ""

\* Cliente.__init__(nombre, telefono, email) at clock value t:
\* [error |-> "" or the exception raised, cliente |-> the object built]
Cliente(nombre, telefono, email, t) ==
    [ error |-> validar_datos(strip(nombre), strip(telefono), strip(email)),
      cliente |->
          [ nombre |-> strip(nombre),
            telefono |-> telefono_limpio(strip(telefono)),
            email |-> strip(email),
            servicios |-> << >>,
            id_cliente |-> << >>,
            fecha_registro |-> strftime_fecha(t) ] ]

RECURSIVE iniciales_de(_)
iniciales_de(palabras) ==
    IF palabras = << >> THEN << >>
    ELSE (IF palabras[1] # << >> THEN << upper_c(palabras[1][1]) >> ELSE << >>)
             \o iniciales_de(Tail(palabras))

\* Cliente.generar_id_cliente at clock value t
generar_id_cliente(nombre, t) ==
    LET palabras == split_ws(nombre)
        iniciales == iniciales_de(SubSeq(palabras, 1, IF Len(palabras) < 2 THEN Len(palabras) ELSE 2))
        completas == IF Len(iniciales) < 2
                     THEN LET todo == iniciales \o upper(SubSeq(nombre, 1, IF Len(nombre) < 2 THEN Len(nombre) ELSE 2))
                          IN SubSeq(todo, 1, IF Len(todo) < 2 THEN Len(todo) ELSE 2)
                     ELSE iniciales
    IN completas \o << "_" >> \o strftime_sello(t)

\* Cliente.agregar_servicio(descripcion) at clock value t:
\* [error |-> "" or the exception raised, cliente |-> the object afterwards]
agregar_servicio(cliente, descripcion, t) ==
    IF descripcion = << >> \/ strip(descripcion) = << >>
    THEN [ error |-> ErrorValidacion({ "campo", "valor", "motivo" }), cliente |-> cliente ]
    ELSE [ error |-> "",
           cliente |-> [ cliente EXCEPT !.servicios =
                             Append(@, Servicio(descripcion, << >>, t)) ] ]

RECURSIVE lineas_servicios(_)
lineas_servicios(servicios) ==
    IF servicios = << >> THEN << >>
    ELSE << << "-", " " >> \o servicios[1].descripcion \o << " ", "(" >>
               \o servicios[1].fecha_solicitud \o << ")" >> >>
             \o lineas_servicios(Tail(servicios))

p_Nombre == << "N", "o", "m", "b", "r", "e", ":" >>

p_ID_Cliente == << "I", "D", "_", "C", "l", "i", "e", "n", "t", "e", ":" >>

p_Telefono == << "T", "e", "l", "e", "f", "o", "n", "o", ":" >>

p_Correo == << "C", "o", "r", "r", "e", "o", ":" >>

p_FechaRegistro ==
    << "F", "e", "c", "h", "a", "R", "e", "g", "i", "s", "t", "r", "o", ":" >>

p_Servicios == << "S", "e", "r", "v", "i", "c", "i", "o", "s", ":" >>

\* Cliente.a_formato_archivo
a_formato_archivo(cliente) ==
    join_nl(<< p_Nombre \o << " " >> \o cliente.nombre,
               p_ID_Cliente \o << " " >> \o cliente.id_cliente,
               p_Telefono \o << " " >> \o cliente.telefono,
               p_Correo \o << " " >> \o cliente.email,
               p_FechaRegistro \o << " " >> \o cliente.fecha_registro,
               p_Servicios >>
            \o lineas_servicios(cliente.servicios))

\* one iteration of the line loop of Cliente.desde_archivo; e holds the
\* local variables of the loop
leer_linea(e, linea_cruda) ==
    LET linea == strip(linea_cruda)
        servicio_texto == SubSeq(linea, 3, Len(linea))
        partes == rsplit1(servicio_texto, "(")
    IN IF startswith(linea, p_Nombre)
       THEN [ e EXCEPT !.nombre = strip(split1_1(linea, ":")) ]
       ELSE IF startswith(linea, p_ID_Cliente)
       THEN [ e EXCEPT !.id_cliente = strip(split1_1(linea, ":")) ]
       ELSE IF startswith(linea, p_Telefono)
       THEN [ e EXCEPT !.telefono = strip(split1_1(linea, ":")) ]
       ELSE IF startswith(linea, p_Correo)
       THEN [ e EXCEPT !.email = strip(split1_1(linea, ":")) ]
       ELSE IF startswith(linea, p_FechaRegistro)
       THEN [ e EXCEPT !.fecha_registro = strip(split1_1(linea, ":")) ]
       ELSE IF linea = p_Servicios
       THEN [ e EXCEPT !.servicios_seccion = TRUE ]
       ELSE IF e.servicios_seccion /\ startswith(linea, << "-", " " >>)
       THEN IF "(" \in Rango(servicio_texto) /\ ")" \in Rango(servicio_texto)
            THEN [ e EXCEPT !.servicios_encontrados =
                       Append(@, << strip(partes[1]), rstrip(partes[2], { ")" }) >>) ]
            ELSE [ e EXCEPT !.servicios_encontrados = Append(@, << servicio_texto, << >> >>) ]
       ELSE e

RECURSIVE leer_lineas(_, _)
leer_lineas(e, lineas) ==
    IF lineas = << >> THEN e ELSE leer_lineas(leer_linea(e, lineas[1]), Tail(lineas))

RECURSIVE servicios_de(_, _)
servicios_de(encontrados, t) ==
    IF encontrados = << >> THEN << >>
    ELSE << Servicio(encontrados[1][1], encontrados[1][2], t) >>
             \o servicios_de(Tail(encontrados), t)

\* Cliente.desde_archivo(contenido_archivo) at clock value t:
\* [error |-> "" or the exception raised, cliente |-> the object built]
desde_archivo(contenido_archivo, t) ==
    LET construido(e, c) ==
            [ error |-> c.error,
              cliente |-> [ c.cliente EXCEPT !.id_cliente = e.id_cliente,
                                             !.fecha_registro = e.fecha_registro,
                                             !.servicios = servicios_de(e.servicios_encontrados, t) ] ]
        leido(e) == construido(e, Cliente(e.nombre, e.telefono, e.email, t))
    IN leido(leer_lineas([ nombre |-> << >>, telefono |-> << >>, email |-> << >>,
                           id_cliente |-> << >>, fecha_registro |-> << >>,
                           servicios_seccion |-> FALSE, servicios_encontrados |-> << >> ],
                         split(strip(contenido_archivo), "\n")))

(***************************************************************************)
(* State of one process and its data directory.                            *)
(***************************************************************************)
VARIABLES
    cache_clientes,   \* ClienteManager._cache_clientes: nombre_normalizado -> Cliente
    disco,            \* directorio_datos: file stem -> content of <stem>.txt
    reloj,            \* the value datetime.now() returns
    ultimo,           \* the last call made by the caller and its outcome
    llamadas,         \* the number of calls made so far
    caso,             \* the case of Casos the caller draws its arguments from
    alias,            \* the pairs { k, k2 } of cache keys bound to one Cliente object
    orden,            \* the keys of _cache_clientes in dict (insertion) order
    clients_cache,    \* services.ClientManager._clients_cache, in dict order:
                      \* the sequence of [normalized_name, client]
    data_directory    \* the data directory of services.FileManager: stem -> content

vars == << cache_clientes, disco, reloj, ultimo, llamadas, caso, alias, orden,
           clients_cache, data_directory >>

\* dict and directory updates
poner(f, k, v) == [ x \in DOMAIN f \cup { k } |-> IF x = k THEN v ELSE f[x] ]

quitar(f, k) == [ x \in DOMAIN f \ { k } |-> f[x] ]

vacio == [ x \in { } |-> << >> ]

\* the keys bound to the object that key k is bound to
clase(al, k) == { k } \cup UNION { p \in al : k \in p }

\* _cache_clientes[propia] = cliente, for the object bound to key k
enlazar(al, propia, k) ==
    IF propia \in clase(al, k) THEN al
    ELSE { p \in al : propia \notin p } \cup { { propia, x } : x \in clase(al, k) }

\* del _cache_clientes[k]
soltar(al, k) == { p \in al : k \notin p }

\* the dict order after a call: the keys that stay keep their places, the
\* keys the call inserted (nuevas, in the order of insertion) follow
orden_tras(ord_, cache, nuevas) ==
    LET quedan == SelectSeq(ord_, LAMBDA k : k \in DOMAIN cache)
        entran == SelectSeq(nuevas, LAMBDA k : k \in DOMAIN cache /\ k \notin Rango(quedan))
    IN quedan \o (IF Len(entran) = 2 /\ entran[1] = entran[2] THEN << entran[1] >> ELSE entran)

(***************************************************************************)
(* cliente_manager.py: ClienteManager.  Every method is an operator of the *)
(* cache and directory it is called on, the failure f the filesystem       *)
(* injects into the call ("ninguna" for none) and the clock t; it yields   *)
(* the cache and directory afterwards, res ("ok" or the exception that     *)
(* reaches the caller), ret (the returned value, << >> when it raised) and *)
(* falla (the injected failure that took effect).                          *)
(***************************************************************************)
\* _cargar_cliente_desde_archivo: [error, falla, cliente]
cargar_cliente_desde_archivo(dsk, nombre_normalizado_, f, t) ==
    LET decodificado(d) ==
            IF d.error # ""
            THEN [ error |-> ErrorArchivo({ "operacion", "nombre_archivo", "motivo" }),
                   falla |-> "ninguna", cliente |-> << >> ]
            ELSE [ error |-> "", falla |-> "ninguna", cliente |-> << d.cliente >> ]
    IN IF nombre_normalizado_ \notin DOMAIN dsk
       THEN [ error |-> ClienteNoEncontradoError, falla |-> "ninguna", cliente |-> << >> ]
       ELSE IF f = "leer"
       THEN [ error |-> ErrorArchivo({ "operacion", "nombre_archivo", "motivo" }),
              falla |-> "leer", cliente |-> << >> ]
       ELSE decodificado(desde_archivo(dsk[nombre_normalizado_], t))

\* _guardar_cliente_en_archivo: [error, falla, disco].  write_text may fail
\* when it opens the file (the directory is unchanged) or after it has
\* truncated it (the file is left empty).
guardar_cliente_en_archivo(dsk, cliente, f) ==
    IF f = "abrir"
    THEN [ error |-> ErrorArchivo({ "operacion", "nombre_archivo", "motivo" }),
           falla |-> "abrir", disco |-> dsk ]
    ELSE IF f = "escribir"
    THEN [ error |-> ErrorArchivo({ "operacion", "nombre_archivo", "motivo" }),
           falla |-> "escribir",
           disco |-> poner(dsk, nombre_normalizado(cliente.nombre), << >>) ]
    ELSE [ error |-> "", falla |-> "ninguna",
           disco |-> poner(dsk, nombre_normalizado(cliente.nombre), a_formato_archivo(cliente)) ]

\* _eliminar_archivo_cliente: [error, falla, disco]
eliminar_archivo_cliente(dsk, nombre_normalizado_, f) ==
    IF nombre_normalizado_ \notin DOMAIN dsk
    THEN [ error |-> "", falla |-> "ninguna", disco |-> dsk ]
    ELSE IF f = "eliminar"
    THEN [ error |-> ErrorArchivo({ "operacion", "nombre_archivo", "motivo" }),
           falla |-> "eliminar", disco |-> dsk ]
    ELSE [ error |-> "", falla |-> "ninguna", disco |-> quitar(dsk, nombre_normalizado_) ]

tel_temp == << "0", "0", "0", "0", "0", "0", "0", "0", "0", "0" >>

email_temp == << "t", "e", "m", "p", "@", "t", "e", "m", "p", ".", "c", "o", "m" >>

\* the key obtener_cliente looks up: nombre_normalizado of a temporary Cliente
clave_de(nombre) == nombre_normalizado(strip(nombre))

\* the duplicate check without its look at the directory
existe_cliente_solo_cache(cache, dsk, clave) == clave \in DOMAIN cache

\* crear_cliente, the two duplicate checks: the key is in the cache, or the
\* file of the key exists
existe_cliente(cache, dsk, clave) == clave \in DOMAIN cache \/ clave \in DOMAIN dsk

\* crear_cliente saving the new record before it looks for an existing one
crear_cliente_guarda_antes(cache, dsk, nombre, telefono, email, primer_servicio, f, t) ==
    LET falla(res, fl) ==
            [ cache |-> cache, disco |-> dsk, res |-> res, ret |-> << >>, falla |-> fl ]
        guardado(cliente, g) ==
            IF g.error # ""
            THEN [ cache |-> cache, disco |-> g.disco, res |-> g.error, ret |-> << >>,
                   falla |-> g.falla ]
            ELSE [ cache |-> poner(cache, nombre_normalizado(cliente.nombre), cliente),
                   disco |-> g.disco, res |-> "ok", ret |-> << cliente >>,
                   falla |-> "ninguna" ]
        con_servicio(a) ==
            IF a.error # "" THEN falla(a.error, "ninguna")
            ELSE guardado(a.cliente, guardar_cliente_en_archivo(dsk, a.cliente, f))
        sobrescrito(a) ==
            IF a.error # "" THEN falla(a.error, "ninguna")
            ELSE [ falla(ClienteExisteError, "ninguna") EXCEPT
                     !.disco = guardar_cliente_en_archivo(dsk, a.cliente, "ninguna").disco ]
        construido(c) ==
            IF c.error # "" THEN falla(c.error, "ninguna")
            ELSE IF existe_cliente(cache, dsk, nombre_normalizado(c.cliente.nombre))
            THEN sobrescrito(agregar_servicio(
                     [ c.cliente EXCEPT !.id_cliente = generar_id_cliente(c.cliente.nombre, t) ],
                     primer_servicio, t))
            ELSE con_servicio(agregar_servicio(
                     [ c.cliente EXCEPT !.id_cliente = generar_id_cliente(c.cliente.nombre, t) ],
                     primer_servicio, t))
    IN construido(Cliente(nombre, telefono, email, t))

\* crear_cliente with the cache entry made before the file is written
crear_cliente_cache_antes(cache, dsk, nombre, telefono, email, primer_servicio, f, t) ==
    LET falla(res, fl) ==
            [ cache |-> cache, disco |-> dsk, res |-> res, ret |-> << >>, falla |-> fl ]
        guardado(cliente, g) ==
            IF g.error # ""
            THEN [ cache |-> poner(cache, nombre_normalizado(cliente.nombre), cliente), disco |-> g.disco, res |-> g.error, ret |-> << >>,
                   falla |-> g.falla ]
            ELSE [ cache |-> poner(cache, nombre_normalizado(cliente.nombre), cliente),
                   disco |-> g.disco, res |-> "ok", ret |-> << cliente >>,
                   falla |-> "ninguna" ]
        con_servicio(a) ==
            IF a.error # "" THEN falla(a.error, "ninguna")
            ELSE guardado(a.cliente, guardar_cliente_en_archivo(dsk, a.cliente, f))
        construido(c) ==
            IF c.error # "" THEN falla(c.error, "ninguna")
            ELSE IF existe_cliente(cache, dsk, nombre_normalizado(c.cliente.nombre))
            THEN falla(ClienteExisteError, "ninguna")
            ELSE con_servicio(agregar_servicio(
                     [ c.cliente EXCEPT !.id_cliente = generar_id_cliente(c.cliente.nombre, t) ],
                     primer_servicio, t))
    IN construido(Cliente(nombre, telefono, email, t))

\* crear_cliente
crear_cliente(cache, dsk, nombre, telefono, email, primer_servicio, f, t) ==
    LET falla(res, fl) ==
            [ cache |-> cache, disco |-> dsk, res |-> res, ret |-> << >>, falla |-> fl ]
        guardado(cliente, g) ==
            IF g.error # ""
            THEN [ cache |-> cache, disco |-> g.disco, res |-> g.error, ret |-> << >>,
                   falla |-> g.falla ]
            ELSE [ cache |-> poner(cache, nombre_normalizado(cliente.nombre), cliente),
                   disco |-> g.disco, res |-> "ok", ret |-> << cliente >>,
                   falla |-> "ninguna" ]
        con_servicio(a) ==
            IF a.error # "" THEN falla(a.error, "ninguna")
            ELSE guardado(a.cliente, guardar_cliente_en_archivo(dsk, a.cliente, f))
        construido(c) ==
            IF c.error # "" THEN falla(c.error, "ninguna")
            ELSE IF existe_cliente(cache, dsk, nombre_normalizado(c.cliente.nombre))
            THEN falla(ClienteExisteError, "ninguna")
            ELSE con_servicio(agregar_servicio(
                     [ c.cliente EXCEPT !.id_cliente = generar_id_cliente(c.cliente.nombre, t) ],
                     primer_servicio, t))
    IN construido(Cliente(nombre, telefono, email, t))

\* obtener_cliente with the key taken from the name as given, not stripped
obtener_cliente_sin_strip(cache, dsk, nombre, f, t) ==
    LET cargado(clave, l) ==
            IF l.error # ""
            THEN [ cache |-> cache, disco |-> dsk, res |-> l.error, ret |-> << >>,
                   falla |-> l.falla ]
            ELSE [ cache |-> poner(cache, clave, l.cliente[1]), disco |-> dsk, res |-> "ok",
                   ret |-> l.cliente, falla |-> "ninguna" ]
        buscado(clave) ==
            IF clave \in DOMAIN cache
            THEN [ cache |-> cache, disco |-> dsk, res |-> "ok", ret |-> << cache[clave] >>,
                   falla |-> "ninguna" ]
            ELSE cargado(clave, cargar_cliente_desde_archivo(dsk, clave, f, t))
        construido(cliente_temp) ==
            IF cliente_temp.error # ""
            THEN [ cache |-> cache, disco |-> dsk, res |-> cliente_temp.error, ret |-> << >>,
                   falla |-> "ninguna" ]
            ELSE buscado(nombre_normalizado(nombre))
    IN construido(Cliente(nombre, tel_temp, email_temp, t))

\* obtener_cliente
obtener_cliente(cache, dsk, nombre, f, t) ==
    LET cargado(clave, l) ==
            IF l.error # ""
            THEN [ cache |-> cache, disco |-> dsk, res |-> l.error, ret |-> << >>,
                   falla |-> l.falla ]
            ELSE [ cache |-> poner(cache, clave, l.cliente[1]), disco |-> dsk, res |-> "ok",
                   ret |-> l.cliente, falla |-> "ninguna" ]
        buscado(clave) ==
            IF clave \in DOMAIN cache
            THEN [ cache |-> cache, disco |-> dsk, res |-> "ok", ret |-> << cache[clave] >>,
                   falla |-> "ninguna" ]
            ELSE cargado(clave, cargar_cliente_desde_archivo(dsk, clave, f, t))
        construido(cliente_temp) ==
            IF cliente_temp.error # ""
            THEN [ cache |-> cache, disco |-> dsk, res |-> cliente_temp.error, ret |-> << >>,
                   falla |-> "ninguna" ]
            ELSE buscado(nombre_normalizado(cliente_temp.cliente.nombre))
    IN construido(Cliente(nombre, tel_temp, email_temp, t))

\* agregar_servicio_cliente.  cliente.agregar_servicio changes the object the
\* cache holds under the looked-up key (and under every key bound to the same
\* object), before the file is written; the last statement binds the
\* object's own key to it.
agregar_servicio_cliente(cache, al, dsk, nombre, descripcion_servicio, f, t) ==
    LET guardado(mutada, cliente, g) ==
            IF g.error # ""
            THEN [ cache |-> mutada, disco |-> g.disco, res |-> g.error, ret |-> << >>,
                   falla |-> g.falla, alias |-> al ]
            ELSE [ cache |-> poner(mutada, nombre_normalizado(cliente.nombre), cliente),
                   disco |-> g.disco, res |-> "ok", ret |-> << cliente >>,
                   falla |-> "ninguna",
                   alias |-> enlazar(al, nombre_normalizado(cliente.nombre), clave_de(nombre)) ]
        con_servicio(o, a) ==
            IF a.error # ""
            THEN [ cache |-> o.cache, disco |-> dsk, res |-> a.error, ret |-> << >>,
                   falla |-> "ninguna", alias |-> al ]
            ELSE guardado([ k \in DOMAIN o.cache |->
                              IF k \in clase(al, clave_de(nombre)) THEN a.cliente
                              ELSE o.cache[k] ],
                          a.cliente, guardar_cliente_en_archivo(dsk, a.cliente, f))
        obtenido(o) ==
            IF o.res # "ok"
            THEN [ cache |-> o.cache, disco |-> o.disco, res |-> o.res, ret |-> o.ret,
                   falla |-> o.falla, alias |-> al ]
            ELSE con_servicio(o, agregar_servicio(o.ret[1], descripcion_servicio, t))
    IN obtenido(obtener_cliente(cache, dsk, nombre, f, t))

\* eliminar_cliente with the cache entry removed whether or not the file was
eliminar_cliente_cache_antes(cache, al, dsk, nombre, f, t) ==
    LET eliminado(o, clave, e) ==
            IF e.error # ""
            THEN [ cache |-> quitar(o.cache, clave), disco |-> e.disco, res |-> e.error, ret |-> << >>,
                   falla |-> e.falla, alias |-> al ]
            ELSE [ cache |-> quitar(o.cache, clave), disco |-> e.disco, res |-> "ok",
                   ret |-> << TRUE >>, falla |-> "ninguna", alias |-> soltar(al, clave) ]
        con_clave(o, clave) == eliminado(o, clave, eliminar_archivo_cliente(dsk, clave, f))
        obtenido(o) ==
            IF o.res # "ok"
            THEN [ cache |-> o.cache, disco |-> o.disco, res |-> o.res, ret |-> o.ret,
                   falla |-> o.falla, alias |-> al ]
            ELSE con_clave(o, nombre_normalizado(o.ret[1].nombre))
    IN obtenido(obtener_cliente(cache, dsk, nombre, f, t))

\* eliminar_cliente
eliminar_cliente(cache, al, dsk, nombre, f, t) ==
    LET eliminado(o, clave, e) ==
            IF e.error # ""
            THEN [ cache |-> o.cache, disco |-> e.disco, res |-> e.error, ret |-> << >>,
                   falla |-> e.falla, alias |-> al ]
            ELSE [ cache |-> quitar(o.cache, clave), disco |-> e.disco, res |-> "ok",
                   ret |-> << TRUE >>, falla |-> "ninguna", alias |-> soltar(al, clave) ]
        con_clave(o, clave) == eliminado(o, clave, eliminar_archivo_cliente(dsk, clave, f))
        obtenido(o) ==
            IF o.res # "ok"
            THEN [ cache |-> o.cache, disco |-> o.disco, res |-> o.res, ret |-> o.ret,
                   falla |-> o.falla, alias |-> al ]
            ELSE con_clave(o, nombre_normalizado(o.ret[1].nombre))
    IN obtenido(obtener_cliente(cache, dsk, nombre, f, t))

\* cargar_archivo without the test "nombre_normalizado not in self._cache_clientes":
\* every file is read, cached or not
cargar_archivo_siempre(cache, dsk, nombre_normalizado_, ilegibles, t) ==
    LET cargado(l) ==
            IF l.error # "" THEN cache ELSE poner(cache, nombre_normalizado_, l.cliente[1])
    IN cargado(cargar_cliente_desde_archivo(
                   dsk, nombre_normalizado_,
                   IF nombre_normalizado_ \in ilegibles THEN "leer" ELSE "ninguna", t))

\* one iteration of the loop of _cargar_todos_clientes_a_cache: a file whose
\* stem is not a key is loaded; when loading raises, the file is skipped
cargar_archivo(cache, dsk, nombre_normalizado_, ilegibles, t) ==
    LET cargado(l) ==
            IF l.error # "" THEN cache ELSE poner(cache, nombre_normalizado_, l.cliente[1])
    IN IF nombre_normalizado_ \in DOMAIN cache THEN cache
       ELSE cargado(cargar_cliente_desde_archivo(
                        dsk, nombre_normalizado_,
                        IF nombre_normalizado_ \in ilegibles THEN "leer" ELSE "ninguna", t))

\* _cargar_todos_clientes_a_cache: the cache afterwards.  archivos_clientes is
\* the list glob("*.txt") gives, as stems; ilegibles are the stems whose
\* read_text fails
RECURSIVE cargar_todos_clientes_a_cache(_, _, _, _, _)
cargar_todos_clientes_a_cache(cache, dsk, archivos_clientes, ilegibles, t) ==
    IF archivos_clientes = << >> THEN cache
    ELSE cargar_todos_clientes_a_cache(
             cargar_archivo(cache, dsk, Head(archivos_clientes), ilegibles, t),
             dsk, Tail(archivos_clientes), ilegibles, t)

\* list.sort(key=lambda c: c.nombre), one insertion: stable
RECURSIVE insertar_ordenado(_, _)
insertar_ordenado(clientes, c) ==
    IF clientes = << >> THEN << c >>
    ELSE IF menor(c.nombre, Head(clientes).nombre) THEN << c >> \o clientes
    ELSE << Head(clientes) >> \o insertar_ordenado(Tail(clientes), c)

RECURSIVE sort_por_nombre(_)
sort_por_nombre(clientes) ==
    IF clientes = << >> THEN << >>
    ELSE insertar_ordenado(sort_por_nombre(SubSeq(clientes, 1, Len(clientes) - 1)),
                           clientes[Len(clientes)])

\* list(self._cache_clientes.values()), ord the dict order of the keys
RECURSIVE values(_, _)
values(cache, ord_) ==
    IF ord_ = << >> THEN << >> ELSE << cache[Head(ord_)] >> \o values(cache, Tail(ord_))

\* listar_todos_clientes; ord_ is the dict order of the cache before the call
listar_todos_clientes(cache, ord_, dsk, archivos_clientes, ilegibles, t) ==
    LET listado(cargada) ==
            [ cache |-> cargada, disco |-> dsk, res |-> "ok",
              ret |-> << sort_por_nombre(values(cargada,
                                                orden_tras(ord_, cargada, archivos_clientes))) >>,
              falla |-> IF ilegibles \cap (DOMAIN dsk \ DOMAIN cache) # { }
                        THEN "leer" ELSE "ninguna" ]
    IN listado(cargar_todos_clientes_a_cache(cache, dsk, archivos_clientes, ilegibles, t))

RECURSIVE sum_servicios(_, _)
sum_servicios(cache, claves) ==
    IF claves = { } THEN 0
    ELSE LET k == CHOOSE x \in claves : TRUE
         IN Len(cache[k].servicios) + sum_servicios(cache, claves \ { k })

\* obtener_estadisticas; promedio_servicios is the quotient num / den
obtener_estadisticas(cache, dsk, archivos_clientes, ilegibles, t) ==
    LET calculado(cargada) ==
            [ cache |-> cargada, disco |-> dsk, res |-> "ok",
              ret |-> << IF Cardinality(DOMAIN cargada) = 0
                         THEN [ total_clientes |-> 0, total_servicios |-> 0,
                                promedio_servicios |-> [ num |-> 0, den |-> 1 ] ]
                         ELSE [ total_clientes |-> Cardinality(DOMAIN cargada),
                                total_servicios |-> sum_servicios(cargada, DOMAIN cargada),
                                promedio_servicios |->
                                    [ num |-> sum_servicios(cargada, DOMAIN cargada),
                                      den |-> Cardinality(DOMAIN cargada) ] ] >>,
              falla |-> IF ilegibles \cap (DOMAIN dsk \ DOMAIN cache) # { }
                        THEN "leer" ELSE "ninguna" ]
    IN calculado(cargar_todos_clientes_a_cache(cache, dsk, archivos_clientes, ilegibles, t))

\* normalizar_nombre (module function): [res, ret, falla].  The except clause
\* catches ErrorValidacion only; any other exception reaches the caller.
normalizar_nombre(nombre, t) ==
    LET construido(cliente_temp) ==
            IF cliente_temp.error = ""
            THEN [ res |-> "ok", ret |-> << nombre_normalizado(cliente_temp.cliente.nombre) >>,
                   falla |-> "ninguna" ]
            ELSE IF cliente_temp.error = "ErrorValidacion"
            THEN [ res |-> "ok",
                   ret |-> << re_sub_fuera(replace(strip(lower(nombre)), " ", "_"),
                                           clase_clave) >>,
                   falla |-> "ninguna" ]
            ELSE [ res |-> cliente_temp.error, ret |-> << >>, falla |-> "ninguna" ]
    IN construido(Cliente(nombre, tel_temp, email_temp, t))

\* the nombre_normalizado property read from a Cliente built for the name
nombre_normalizado_de(nombre, t) ==
    LET construido(cliente_temp) ==
            IF cliente_temp.error = ""
            THEN [ res |-> "ok", ret |-> << nombre_normalizado(cliente_temp.cliente.nombre) >>,
                   falla |-> "ninguna" ]
            ELSE [ res |-> cliente_temp.error, ret |-> << >>, falla |-> "ninguna" ]
    IN construido(Cliente(nombre, tel_temp, email_temp, t))

(***************************************************************************)
(* The calls the caller makes.                                             *)
(***************************************************************************)
\* The caller of one behaviour draws its arguments from one of these cases.
Casos ==
    { \* names that differ in case and in whitespace
      [ nombres_crear |-> { << "J", "o", " ", "L", "i" >>,
                            << " ", "J", "O", " ", "L", "I", " " >>,
                            << "J", "o", " ", " ", "L", "i" >> },
        nombres_buscar |-> { << "J", "o", " ", "L", "i" >>,
                             << " ", "J", "O", " ", "L", "I", " " >>,
                             << "J", "o", " ", " ", "L", "i" >>,
                             << "j", "o", "_", "l", "i" >> },
        telefonos |-> { << "5", "5", "5", "-", "1", "2", "3", "-", "4", "5", "6", "7" >> },
        correos |-> { << "a", "@", "b", ".", "c", "o" >> },
        descripciones |-> { << "a", " ", "(", "b", ")" >> } ],
      \* a name whose key has one character, fields that fail validation,
      \* a description of two lines
      [ nombres_crear |-> { << "J", "." >>, << "j" >> },
        nombres_buscar |-> { << "J", "." >>, << "j" >> },
        telefonos |-> { << "5", "5", "5", "-", "1", "2", "3", "-", "4", "5", "6", "7" >>,
                        << "1", "2", "3" >> },
        correos |-> { << "a", "@", "b", ".", "c", "o" >>, << "a", "b", ".", "c", "o" >> },
        descripciones |-> { << "a", " ", "(", "b", ")" >>, << "x", "\n", "y" >>, << " " >> } ],
      \* a name of two lines, and the name that is its first line
      [ nombres_crear |-> { << "J", "o", "\n", "L", "i" >>, << "J", "o" >> },
        nombres_buscar |-> { << "J", "o", "\n", "L", "i" >>, << "J", "o" >> },
        telefonos |-> { << "5", "5", "5", "-", "1", "2", "3", "-", "4", "5", "6", "7" >> },
        correos |-> { << "a", "@", "b", ".", "c", "o" >> },
        descripciones |-> { << "a", " ", "(", "b", ")" >> } ],
      \* names with no letter or digit: their key is empty
      [ nombres_crear |-> { << "-", "-" >>, << "J", "o" >> },
        nombres_buscar |-> { << "-", "-" >>, << "+", "+" >> },
        telefonos |-> { << "5", "5", "5", "-", "1", "2", "3", "-", "4", "5", "6", "7" >> },
        correos |-> { << "a", "@", "b", ".", "c", "o" >> },
        descripciones |-> { << "a", " ", "(", "b", ")" >> } ] }

\* the record of a call: the method, its arguments (<< >> for one the method
\* does not take) and the outcome r
llamada(op, nombre, telefono, email, descripcion, r) ==
    [ op |-> op, nombre |-> nombre, telefono |-> telefono, email |-> email,
      descripcion |-> descripcion, res |-> r.res, ret |-> r.ret, falla |-> r.falla ]

\* no call yet on this ClienteManager
sin_llamada ==
    [ op |-> "__init__", nombre |-> << >>, telefono |-> << >>, email |-> << >>,
      descripcion |-> << >>, res |-> "ok", ret |-> << >>, falla |-> "ninguna" ]

Init ==
    /\ cache_clientes = vacio
    /\ disco = vacio
    /\ reloj = 0
    /\ ultimo = sin_llamada
    /\ llamadas = 0
    /\ caso \in Casos
    /\ alias = { }
    /\ orden = << >>
    /\ clients_cache = << >>
    /\ data_directory = vacio

\* a call returns or raises: the store is as the call left it.  al is the
\* binding of keys to objects afterwards, nuevas the keys the call may have
\* inserted, in the order of insertion
hecha(op, nombre, telefono, email, descripcion, r, al, nuevas) ==
    /\ cache_clientes' = r.cache
    /\ disco' = r.disco
    /\ ultimo' = llamada(op, nombre, telefono, email, descripcion, r)
    /\ llamadas' = llamadas + 1
    /\ alias' = al
    /\ orden' = orden_tras(orden, r.cache, nuevas)
    /\ UNCHANGED << reloj, caso, clients_cache, data_directory >>

\* the keys agregar_servicio_cliente may insert: the looked-up key, when the
\* record is loaded, and the record's own key, when the call returns
claves_de_agregar(nombre, r) ==
    << clave_de(nombre) >>
        \o (IF r.res = "ok" THEN << nombre_normalizado(r.ret[1].nombre) >> ELSE << >>)

\* the orders in which a directory can list the members of S
Permutaciones(S) ==
    { p \in [1..Cardinality(S) -> S] : \A i, j \in 1..Cardinality(S) : p[i] = p[j] => i = j }

CrearCliente ==
    /\ llamadas < MaxLlamadas
    /\ \E nombre \in caso.nombres_crear, telefono \in caso.telefonos,
          email \in caso.correos, primer_servicio \in caso.descripciones,
          f \in { "ninguna", "abrir", "escribir" } :
        hecha("crear_cliente", nombre, telefono, email, primer_servicio,
              crear_cliente(cache_clientes, disco, nombre, telefono, email,
                            primer_servicio, f, reloj),
              alias, << clave_de(nombre) >>)

ObtenerCliente ==
    /\ llamadas < MaxLlamadas
    /\ \E nombre \in caso.nombres_buscar, f \in { "ninguna", "leer" } :
        hecha("obtener_cliente", nombre, << >>, << >>, << >>,
              obtener_cliente(cache_clientes, disco, nombre, f, reloj),
              alias, << clave_de(nombre) >>)

\* a call of a method whose outcome r tells the binding of keys to objects
hecha_con_alias(op, nombre, descripcion, r, nuevas) ==
    hecha(op, nombre, << >>, << >>, descripcion, r, r.alias, nuevas)

AgregarServicioCliente ==
    /\ llamadas < MaxLlamadas
    /\ \E nombre \in caso.nombres_buscar, descripcion_servicio \in caso.descripciones,
          f \in { "ninguna", "leer", "abrir", "escribir" } :
        LET agregado(r) ==
                hecha_con_alias("agregar_servicio_cliente", nombre, descripcion_servicio,
                                r, claves_de_agregar(nombre, r))
        IN agregado(agregar_servicio_cliente(cache_clientes, alias, disco, nombre,
                                             descripcion_servicio, f, reloj))

EliminarCliente ==
    /\ llamadas < MaxLlamadas
    /\ \E nombre \in caso.nombres_buscar, f \in { "ninguna", "leer", "eliminar" } :
        hecha_con_alias("eliminar_cliente", nombre, << >>,
                        eliminar_cliente(cache_clientes, alias, disco, nombre, f, reloj),
                        << clave_de(nombre) >>)

\* Path.stem of the file of a key: the file of the empty key is ".txt", a
\* name without suffix
stem(nombre_normalizado_) ==
    IF nombre_normalizado_ = << >> THEN << ".", "t", "x", "t" >> ELSE nombre_normalizado_

\* the lists of stems glob("*.txt") can give _cargar_todos_clientes_a_cache
glob_txt(dsk) ==
    { [ i \in 1..Cardinality(DOMAIN dsk) |-> stem(p[i]) ] : p \in Permutaciones(DOMAIN dsk) }

ListarTodosClientes ==
    /\ llamadas < MaxLlamadas
    /\ \E archivos_clientes \in glob_txt(disco),
          ilegibles \in { { } } \cup { { k } : k \in DOMAIN disco } :
        hecha("listar_todos_clientes", << >>, << >>, << >>, << >>,
              listar_todos_clientes(cache_clientes, orden, disco, archivos_clientes,
                                    ilegibles, reloj),
              alias, archivos_clientes)

ObtenerEstadisticas ==
    /\ llamadas < MaxLlamadas
    /\ \E archivos_clientes \in glob_txt(disco),
          ilegibles \in { { } } \cup { { k } : k \in DOMAIN disco } :
        hecha("obtener_estadisticas", << >>, << >>, << >>, << >>,
              obtener_estadisticas(cache_clientes, disco, archivos_clientes,
                                   ilegibles, reloj),
              alias, archivos_clientes)

\* the process ends and a new ClienteManager is built on the same directory
\* (ClienteManager.__init__: an empty cache, the directory kept)
Reiniciar ==
    /\ cache_clientes' = vacio
    /\ ultimo' = sin_llamada
    /\ alias' = { }
    /\ orden' = << >>
    /\ UNCHANGED << disco, reloj, llamadas, caso, clients_cache, data_directory >>

\* a second passes
Tic ==
    /\ reloj < MaxReloj
    /\ reloj' = reloj + 1
    /\ UNCHANGED << cache_clientes, disco, ultimo, llamadas, caso, alias, orden,
                    clients_cache, data_directory >>

Next ==
    \/ CrearCliente
    \/ ObtenerCliente
    \/ AgregarServicioCliente
    \/ EliminarCliente
    \/ ListarTodosClientes
    \/ ObtenerEstadisticas
    \/ Reiniciar
    \/ Tic

Spec == Init /\ [][Next]_vars

(***************************************************************************)
(* The normalization applied to every short name over Alfabeto.            *)
(***************************************************************************)
Alfabeto == { "a", "B", " ", "\t", "ó", "_", "-" }

RECURSIVE Cadenas(_)
Cadenas(n) ==
    IF n = 0 THEN { << >> }
    ELSE Cadenas(n - 1) \cup { Append(s, c) : s \in Cadenas(n - 1), c \in Alfabeto }

\* the caller holds a name and has not called yet
InitNormalizar ==
    /\ cache_clientes = vacio
    /\ disco = vacio
    /\ reloj = 0
    /\ ultimo \in { [ sin_llamada EXCEPT !.nombre = nombre ] : nombre \in Cadenas(MaxNombre) }
    /\ llamadas = 0
    /\ caso \in Casos
    /\ alias = { }
    /\ orden = << >>
    /\ clients_cache = << >>
    /\ data_directory = vacio

NormalizarNombre ==
    /\ ultimo.op = "__init__"
    /\ ultimo' = llamada("normalizar_nombre", ultimo.nombre, << >>, << >>, << >>,
                         normalizar_nombre(ultimo.nombre, reloj))
    /\ UNCHANGED << cache_clientes, disco, reloj, llamadas, caso, alias, orden,
                    clients_cache, data_directory >>

NombreNormalizado ==
    /\ ultimo.op = "__init__"
    /\ ultimo' = llamada("nombre_normalizado", ultimo.nombre, << >>, << >>, << >>,
                         nombre_normalizado_de(ultimo.nombre, reloj))
    /\ UNCHANGED << cache_clientes, disco, reloj, llamadas, caso, alias, orden,
                    clients_cache, data_directory >>

NextNormalizar ==
    \/ NormalizarNombre
    \/ NombreNormalizado

SpecNormalizar == InitNormalizar /\ [][NextNormalizar]_vars

\* the directories an earlier process can leave behind: up to two calls of
\* crear_cliente, each on a new ClienteManager, with the inputs of case c at
\* time 0; a call whose write fails leaves an empty file
directorio_tras(dsk, c) ==
    { crear_cliente(vacio, dsk, nombre, telefono, email, primer_servicio, f, 0).disco :
        nombre \in c.nombres_crear, telefono \in c.telefonos, email \in c.correos,
        primer_servicio \in c.descripciones, f \in { "ninguna", "escribir" } }

Directorios(c) ==
    { vacio } \cup UNION { directorio_tras(dsk, c) : dsk \in directorio_tras(vacio, c) }

\* what a record file written by hand holds in its Telefono and Correo lines
\* and in the line below "Servicios:"
TelefonosEnArchivo ==
    { << "5", "5", "5", "1", "2", "3", "4", "5", "6", "7" >>, << "1", "2", "3" >> }

CorreosEnArchivo ==
    { << "a", "@", "b", ".", "c", "o" >>, << "a", "b", ".", "c", "o" >> }

LineasEnArchivo ==
    { << "-", " ", "x", " ", "(", "a", "y", "e", "r", ")" >>, << "-", " ", "x" >> }

\* the directories that hold one record file written by hand in the format
\* of a_formato_archivo, under the file name of the record's name
Editados(c) ==
    { poner(vacio, clave_de(nombre),
            a_formato_archivo([ nombre |-> strip(nombre), telefono |-> telefono,
                                email |-> email, servicios |-> << >>,
                                id_cliente |-> generar_id_cliente(strip(nombre), 0),
                                fecha_registro |-> strftime_fecha(0) ])
                \o << "\n" >> \o linea) :
        nombre \in c.nombres_crear, telefono \in TelefonosEnArchivo,
        email \in CorreosEnArchivo, linea \in LineasEnArchivo }

\* ClienteManager.__init__ on a directory that holds files already
InitDirectorio ==
    /\ cache_clientes = vacio
    /\ caso \in Casos
    /\ disco \in Directorios(caso) \cup Editados(caso)
    /\ reloj = 0
    /\ ultimo = sin_llamada
    /\ llamadas = 0
    /\ alias = { }
    /\ orden = << >>
    /\ clients_cache = << >>
    /\ data_directory = vacio

\* the calls of a process that only reads
NextDirectorio ==
    \/ ObtenerCliente
    \/ ListarTodosClientes
    \/ ObtenerEstadisticas
    \/ Tic

SpecDirectorio == InitDirectorio /\ [][NextDirectorio]_vars

(***************************************************************************)
(* Properties of the record store.  A step is a call of method m when it   *)
(* adds one to llamadas and leaves m in ultimo.op; ultimo then holds the   *)
(* arguments and the outcome of that call, and the unprimed variables the  *)
(* store the call was made on.                                             *)
(***************************************************************************)

\* C1: after any sequence of crear_cliente, agregar_servicio_cliente and
\* eliminar_cliente calls, whenever a call has returned successfully every
\* key of the cache has a file in the directory, and decoding that file gives
\* a record equal to the cache entry in every field.
C1_CacheIgualADirectorio ==
    ( ultimo.op \in { "crear_cliente", "agregar_servicio_cliente", "eliminar_cliente" }
      /\ ultimo.res = "ok" )
    => \A k \in DOMAIN cache_clientes :
          /\ k \in DOMAIN disco
          /\ desde_archivo(disco[k], reloj).error = ""
          /\ desde_archivo(disco[k], reloj).cliente = cache_clientes[k]

\* C2: a crear_cliente call whose name, phone and email pass validation
\* fails with ClienteExisteError whenever the key of the name is in the cache
\* or a file of that stem is in the directory (the directory is looked at
\* even when the cache misses), and it changes neither.
C2_CrearExistenteFalla ==
    [][ ( /\ llamadas' = llamadas + 1
          /\ ultimo'.op = "crear_cliente"
          /\ Cliente(ultimo'.nombre, ultimo'.telefono, ultimo'.email, reloj).error = ""
          /\ \/ clave_de(ultimo'.nombre) \in DOMAIN cache_clientes
             \/ clave_de(ultimo'.nombre) \in DOMAIN disco )
        => ( /\ ultimo'.res = ClienteExisteError
             /\ cache_clientes' = cache_clientes
             /\ disco' = disco ) ]_vars

\* a crear_cliente call was refused for a file the cache does not know
C2_Testigo ==
    /\ ultimo.op = "crear_cliente"
    /\ ultimo.res = ClienteExisteError
    /\ clave_de(ultimo.nombre) \notin DOMAIN cache_clientes
    /\ clave_de(ultimo.nombre) \in DOMAIN disco

\* C3: when the store holds a record, a crear_cliente call with valid fields
\* and a name that differs from the record's only in letter case, in leading
\* or trailing whitespace or in the length of its whitespace runs fails with
\* ClienteExisteError, and the store still holds exactly one record and the
\* same files.
C3_NombresEquivalentes ==
    [][ ( /\ llamadas' = llamadas + 1
          /\ ultimo'.op = "crear_cliente"
          /\ Cliente(ultimo'.nombre, ultimo'.telefono, ultimo'.email, reloj).error = ""
          /\ \E k \in DOMAIN cache_clientes :
                split_ws(lower(cache_clientes[k].nombre)) = split_ws(lower(ultimo'.nombre)) )
        => ( /\ ultimo'.res = ClienteExisteError
             /\ Cardinality({ k \in DOMAIN cache_clientes' :
                    split_ws(lower(cache_clientes'[k].nombre))
                        = split_ws(lower(ultimo'.nombre)) }) = 1
             /\ disco' = disco ) ]_vars

\* C4: in crear_cliente the record is written before the cache learns the
\* key: when the write fails the call raises and the cache, unchanged, does
\* not hold the key; a key the call added to the cache has a file that holds
\* the encoded record.
C4_EscribirAntesDeCache ==
    [][ ( llamadas' = llamadas + 1 /\ ultimo'.op = "crear_cliente" )
        => LET k == clave_de(ultimo'.nombre)
           IN /\ ultimo'.falla \in { "abrir", "escribir" }
                    => ( /\ ultimo'.res # "ok"
                         /\ cache_clientes' = cache_clientes
                         /\ k \notin DOMAIN cache_clientes' )
              /\ k \in DOMAIN cache_clientes' \ DOMAIN cache_clientes
                    => ( /\ ultimo'.res = "ok"
                         /\ k \in DOMAIN disco'
                         /\ disco'[k] = a_formato_archivo(cache_clientes'[k]) ) ]_vars

\* a crear_cliente call raised after its write truncated the file, and the
\* cache does not hold the key
C4_Testigo ==
    /\ ultimo.op = "crear_cliente"
    /\ ultimo.falla = "escribir"
    /\ ultimo.res # "ok"
    /\ clave_de(ultimo.nombre) \in DOMAIN disco
    /\ clave_de(ultimo.nombre) \notin DOMAIN cache_clientes

\* C5: when the write inside agregar_servicio_cliente fails, the call raises
\* and every entry the cache held before the call is as it was (without the
\* new service).
C5_AgregarFallaAtomica ==
    [][ ( /\ llamadas' = llamadas + 1
          /\ ultimo'.op = "agregar_servicio_cliente"
          /\ ultimo'.falla \in { "abrir", "escribir" } )
        => ( /\ ultimo'.res # "ok"
             /\ \A k \in DOMAIN cache_clientes :
                   k \in DOMAIN cache_clientes' /\ cache_clientes'[k] = cache_clientes[k] ) ]_vars

\* C6: in eliminar_cliente, when removing the file fails the call raises and
\* the cache entry and the file of the key are still there; the call removes
\* a cache entry only when it returns, the file then gone.
C6_EliminarUnSoloPaso ==
    [][ ( llamadas' = llamadas + 1 /\ ultimo'.op = "eliminar_cliente" )
        => LET k == clave_de(ultimo'.nombre)
           IN /\ ultimo'.falla = "eliminar"
                    => ( /\ ultimo'.res # "ok"
                         /\ k \in DOMAIN cache_clientes'
                         /\ disco' = disco
                         /\ k \in DOMAIN disco' )
              /\ ( k \in DOMAIN cache_clientes /\ k \notin DOMAIN cache_clientes' )
                    => ( ultimo'.res = "ok" /\ k \notin DOMAIN disco' ) ]_vars

\* an eliminar_cliente call raised because the file could not be removed, and
\* the cache still holds the entry
C6_Testigo ==
    /\ ultimo.op = "eliminar_cliente"
    /\ ultimo.falla = "eliminar"
    /\ ultimo.res # "ok"
    /\ clave_de(ultimo.nombre) \in DOMAIN cache_clientes
    /\ clave_de(ultimo.nombre) \in DOMAIN disco

\* C7: obtener_cliente returns the cache entry of the key of the name when
\* the cache has one; otherwise, when the file of the key is there and is
\* read, it decodes the file, puts the record in the cache under the key and
\* returns it; otherwise it fails with ClienteNoEncontradoError and the cache
\* is unchanged.
C7_ObtenerCliente ==
    [][ ( llamadas' = llamadas + 1 /\ ultimo'.op = "obtener_cliente" )
        => LET k == clave_de(ultimo'.nombre)
           IN /\ disco' = disco
              /\ k \in DOMAIN cache_clientes
                    => ( /\ ultimo'.res = "ok"
                         /\ ultimo'.ret = << cache_clientes[k] >>
                         /\ cache_clientes' = cache_clientes )
              /\ ( k \notin DOMAIN cache_clientes /\ k \in DOMAIN disco
                   /\ ultimo'.falla = "ninguna" /\ desde_archivo(disco[k], reloj).error = "" )
                    => ( /\ ultimo'.res = "ok"
                         /\ ultimo'.ret = << desde_archivo(disco[k], reloj).cliente >>
                         /\ cache_clientes' = poner(cache_clientes, k, ultimo'.ret[1]) )
              /\ ( k \notin DOMAIN cache_clientes /\ k \notin DOMAIN disco )
                    => ( /\ ultimo'.res = ClienteNoEncontradoError
                         /\ cache_clientes' = cache_clientes ) ]_vars

\* C8: an obtener_cliente call that follows a successful crear_cliente call
\* on the same ClienteManager, with the name as it was given to
\* crear_cliente, returns a record equal in every field to the one
\* crear_cliente returned.
C8_CrearLuegoObtener ==
    [][ ( /\ llamadas' = llamadas + 1
          /\ ultimo'.op = "obtener_cliente"
          /\ ultimo.op = "crear_cliente"
          /\ ultimo.res = "ok"
          /\ ultimo'.nombre = ultimo.nombre )
        => ( ultimo'.res = "ok" /\ ultimo'.ret = ultimo.ret ) ]_vars

\* obtener_cliente returned, for a name that is not its own key, the record
\* as crear_cliente built it: its description of two lines is one no file
\* gives back
C8_Testigo ==
    /\ ultimo.op = "obtener_cliente"
    /\ ultimo.res = "ok"
    /\ llamadas = 2
    /\ ultimo.nombre # clave_de(ultimo.nombre)
    /\ ultimo.ret[1].id_cliente # << >>
    /\ ultimo.ret[1].servicios[1].descripcion = << "x", "\n", "y" >>

\* C9: after eliminar_cliente has returned, the cache has no entry and the
\* directory no file for the key, and obtener_cliente with any name of that
\* key fails with ClienteNoEncontradoError.
C9_EliminarLuegoObtener ==
    ( ultimo.op = "eliminar_cliente" /\ ultimo.res = "ok" )
    => /\ clave_de(ultimo.nombre) \notin DOMAIN cache_clientes
       /\ clave_de(ultimo.nombre) \notin DOMAIN disco
       /\ \A n \in caso.nombres_buscar :
             clave_de(n) = clave_de(ultimo.nombre)
                => obtener_cliente(cache_clientes, disco, n, "ninguna", reloj).res
                       = ClienteNoEncontradoError

\* C10: an agregar_servicio_cliente call that returns leaves the record with
\* one service more, the new one last, and the services it had before the
\* call (in the cache, or in the file when the call loaded it) at the same
\* positions with the same descriptions and timestamps, in the cache record
\* and in the record the rewritten file decodes to.
C10_AgregarConserva ==
    [][ ( /\ llamadas' = llamadas + 1
          /\ ultimo'.op = "agregar_servicio_cliente"
          /\ ultimo'.res = "ok" )
        => LET k == clave_de(ultimo'.nombre)
               antes == IF k \in DOMAIN cache_clientes
                        THEN cache_clientes[k].servicios
                        ELSE desde_archivo(disco[k], reloj).cliente.servicios
               despues == cache_clientes'[k].servicios
               archivo == desde_archivo(disco'[k], reloj').cliente.servicios
           IN /\ Len(despues) = Len(antes) + 1
              /\ SubSeq(despues, 1, Len(antes)) = antes
              /\ despues[Len(despues)].descripcion = strip(ultimo'.descripcion)
              /\ archivo = despues ]_vars

\* C11: for a record built by crear_cliente followed by any number of
\* agregar_servicio_cliente calls, decoding its encoding gives a record equal
\* to it in every field and in the number, order, descriptions and
\* timestamps of its services.
C11_IdaYVuelta ==
    ( ultimo.op \in { "crear_cliente", "agregar_servicio_cliente" } /\ ultimo.res = "ok" )
    => /\ desde_archivo(a_formato_archivo(ultimo.ret[1]), reloj).error = ""
       /\ desde_archivo(a_formato_archivo(ultimo.ret[1]), reloj).cliente = ultimo.ret[1]

\* the key section 4.1 of the specification gives a display name: trimmed,
\* lower-cased, accents replaced, every run of whitespace one underscore, any
\* other character outside [a-z0-9_] dropped
RECURSIVE colapsar_espacios(_)
colapsar_espacios(s) ==
    IF s = << >> THEN << >>
    ELSE IF Head(s) \in Espacios THEN << "_" >> \o colapsar_espacios(lstrip(s, Espacios))
    ELSE << Head(s) >> \o colapsar_espacios(Tail(s))

normalize(display_name) ==
    re_sub_fuera(colapsar_espacios(aplicar_reemplazos(lower(strip(display_name)),
                                                      SubSeq(reemplazos, 1, 7))),
                 clase_clave)

\* C12: the key the code gives a name (normalizar_nombre, and the
\* nombre_normalizado of a Cliente built for the name) is the name trimmed,
\* lower-cased, its accented letters replaced, every run of spaces or tabs
\* replaced by one underscore and every other character outside [a-z0-9_]
\* dropped.
C12_Normalizar ==
    ( ultimo.op \in { "normalizar_nombre", "nombre_normalizado" } /\ ultimo.res = "ok" )
    => ultimo.ret = << normalize(ultimo.nombre) >>

\* the file of stem s holds the record c: it decodes to c's id and name
archivo_contiene(s, c) ==
    LET leido(l) ==
            /\ l.error = ""
            /\ l.cliente.id_cliente = c.id_cliente
            /\ l.cliente.nombre = c.nombre
    IN leido(desde_archivo(disco[s], reloj))

\* C13: in every reachable state every key of the cache is the key of the
\* name of the record under it and the stem of the one file that holds the
\* record, and no record (object) is under two keys or in two files.
C13_UnaClaveUnArchivo ==
    /\ alias = { }
    /\ \A k \in DOMAIN cache_clientes :
        /\ k = nombre_normalizado(cache_clientes[k].nombre)
        /\ { s \in DOMAIN disco : archivo_contiene(s, cache_clientes[k]) } = { k }

\* the five fields of a record that no operation is to change
campos_fijos(c) ==
    << c.id_cliente, c.fecha_registro, c.nombre, c.telefono, c.email >>

\* C14: the id, registration date, name, phone and email of a record never
\* change between its creation and its deletion.  In the state a crear_cliente
\* call returns in, a new ClienteManager over the directory gets a record
\* with the five fields of the record the call returned; and no step changes
\* the five fields of a record that stays in the cache, or of a file that
\* stays in the directory and can be decoded.
C14_CamposFijos ==
    /\ []( ( ultimo.op = "crear_cliente" /\ ultimo.res = "ok" )
           => LET recargado(r) ==
                      /\ r.res = "ok"
                      /\ campos_fijos(r.ret[1]) = campos_fijos(ultimo.ret[1])
              IN recargado(obtener_cliente(vacio, disco, ultimo.nombre, "ninguna", reloj)) )
    /\ [][ /\ \A k \in DOMAIN cache_clientes \cap DOMAIN cache_clientes' :
               campos_fijos(cache_clientes'[k]) = campos_fijos(cache_clientes[k])
           /\ \A s \in DOMAIN disco \cap DOMAIN disco' :
               ( /\ desde_archivo(disco[s], reloj).error = ""
                 /\ desde_archivo(disco'[s], reloj').error = "" )
               => campos_fijos(desde_archivo(disco'[s], reloj').cliente)
                  = campos_fijos(desde_archivo(disco[s], reloj).cliente) ]_vars

\* the arguments of the call u fail validation: the name, phone or email of
\* a crear_cliente call, or the description of either call
entrada_invalida(u) ==
    \/ /\ u.op = "crear_cliente"
       /\ \/ validar_datos(strip(u.nombre), strip(u.telefono), strip(u.email)) # ""
          \/ strip(u.descripcion) = << >>
    \/ /\ u.op = "agregar_servicio_cliente"
       /\ strip(u.descripcion) = << >>

\* C15: a crear_cliente or agregar_servicio_cliente call whose input fails
\* validation (no filesystem failure in the call; for the create a name no
\* client has, for the update a name that is found) raises ErrorValidacion,
\* leaves every file as it was and changes no record of the cache.
C15_ValidacionFalla ==
    [][ ( /\ llamadas' = llamadas + 1
          /\ ultimo'.falla = "ninguna"
          /\ entrada_invalida(ultimo')
          /\ ultimo'.op = "crear_cliente"
                => ~existe_cliente(cache_clientes, disco, clave_de(ultimo'.nombre))
          /\ ultimo'.op = "agregar_servicio_cliente"
                => obtener_cliente(cache_clientes, disco, ultimo'.nombre,
                                   "ninguna", reloj).res = "ok" )
        => /\ ultimo'.res = "ErrorValidacion"
           /\ disco' = disco
           /\ \A k \in DOMAIN cache_clientes :
               k \in DOMAIN cache_clientes' /\ cache_clientes'[k] = cache_clientes[k] ]_vars

\* C16: an obtener_cliente, crear_cliente, agregar_servicio_cliente or
\* eliminar_cliente call in which a filesystem operation fails raises
\* ErrorArchivo: the failure is neither swallowed nor replaced by another
\* kind of error.
C16_FallaDeArchivo ==
    [][ ( /\ llamadas' = llamadas + 1
          /\ ultimo'.op \in { "obtener_cliente", "crear_cliente",
                              "agregar_servicio_cliente", "eliminar_cliente" }
          /\ ultimo'.falla # "ninguna" )
        => ultimo'.res = "ErrorArchivo" ]_vars

\* C17: an agregar_servicio_cliente or eliminar_cliente call with a name
\* whose key is neither a key of the cache nor the stem of a file raises
\* ClienteNoEncontradoError and changes neither the directory nor the cache.
C17_NoEncontrado ==
    [][ ( /\ llamadas' = llamadas + 1
          /\ ultimo'.op \in { "agregar_servicio_cliente", "eliminar_cliente" }
          /\ ~existe_cliente(cache_clientes, disco, clave_de(ultimo'.nombre)) )
        => /\ ultimo'.res = "ClienteNoEncontradoError"
           /\ disco' = disco
           /\ cache_clientes' = cache_clientes ]_vars

\* the file of stem s can be read and decoded
legible(s) == cargar_cliente_desde_archivo(disco, s, "ninguna", reloj).error = ""

\* C18: a listar_todos_clientes call returns; when no read fails in it, every
\* file that can be decoded has its stem in the cache afterwards; the list
\* has one record per key of the cache, in ascending order of nombre, records
\* of equal nombre in the order their keys were inserted in the cache; and a
\* call that follows a listar_todos_clientes call with no other call between
\* them (no read failing in either) returns the list the first returned.
C18_ListarTodos ==
    [][ ( /\ llamadas' = llamadas + 1
          /\ ultimo'.op = "listar_todos_clientes" )
        => /\ ultimo'.res = "ok"
           /\ ultimo'.falla = "ninguna"
                => \A s \in DOMAIN disco : legible(s) => s \in DOMAIN cache_clientes'
           /\ Len(ultimo'.ret[1]) = Cardinality(DOMAIN cache_clientes')
           /\ Rango(orden') = DOMAIN cache_clientes'
           /\ \E p \in Permutaciones(1..Len(orden')) :
               /\ \A i \in 1..Len(orden') :
                   ultimo'.ret[1][i] = cache_clientes'[orden'[p[i]]]
               /\ \A i, j \in 1..Len(orden') :
                   i < j => \/ menor(ultimo'.ret[1][i].nombre, ultimo'.ret[1][j].nombre)
                            \/ /\ ultimo'.ret[1][i].nombre = ultimo'.ret[1][j].nombre
                               /\ p[i] < p[j]
           /\ ( /\ ultimo.op = "listar_todos_clientes"
                /\ ultimo.falla = "ninguna"
                /\ ultimo'.falla = "ninguna" )
                => ultimo'.ret = ultimo.ret ]_vars

\* C19: an obtener_estadisticas call returns; when no read fails in it, every
\* file that can be decoded has its stem in the cache afterwards; the count
\* is the number of keys of the cache and total_servicios the sum of the
\* numbers of services of the records under them; with no file and no record
\* the call returns 0, 0 and the average 0.
C19_Estadisticas ==
    [][ ( /\ llamadas' = llamadas + 1
          /\ ultimo'.op = "obtener_estadisticas" )
        => /\ ultimo'.res = "ok"
           /\ ultimo'.falla = "ninguna"
                => \A s \in DOMAIN disco : legible(s) => s \in DOMAIN cache_clientes'
           /\ ultimo'.ret[1].total_clientes = Cardinality(DOMAIN cache_clientes')
           /\ ultimo'.ret[1].total_servicios
                = sum_servicios(cache_clientes', DOMAIN cache_clientes')
           /\ ( disco = vacio /\ cache_clientes = vacio )
                => /\ ultimo'.ret[1].total_clientes = 0
                   /\ ultimo'.ret[1].total_servicios = 0
                   /\ ultimo'.ret[1].promedio_servicios.num = 0 ]_vars

(***************************************************************************)
(* exceptions.py, models.py and services.py: the ClientManager that has    *)
(* search_clients.  _clients_cache is the sequence of its items.           *)
(***************************************************************************)
\* ClientError.__init__(self, message, client_name): both are required
ClientError(clase_, n_posicionales) ==
    IF n_posicionales = 2 THEN clase_ ELSE "TypeError"

\* ClientExistsError.__init__ calls super().__init__(message, client_name)
ClientExistsError == ClientError("ClientExistsError", 2)

\* ValidationError.__init__ calls super().__init__(message)
ValidationError == ClientError("ValidationError", 1)

\* FileOperationError.__init__ calls super().__init__(message)
FileOperationError == ClientError("FileOperationError", 1)

\* sub in s
contiene(s, sub) ==
    \E i \in 0..(Len(s) - Len(sub)) : SubSeq(s, i + 1, i + Len(sub)) = sub

\* str.isdigit
isdigit(s) == s # << >> /\ \A i \in 1..Len(s) : s[i] \in SetDigitos

\* clean_phone of Client._validate_phone
clean_phone(phone) ==
    SelectSeq(strip(phone), LAMBDA c : c \notin { "-", " ", "(", ")" })

\* Client.validate: "" or the exception raised
validate(name, phone, email) ==
    IF name = << >> \/ strip(name) = << >> \/ Len(strip(name)) < 2 THEN ValidationError
    ELSE IF phone = << >> \/ strip(phone) = << >> THEN ValidationError
    ELSE IF ~isdigit(clean_phone(phone)) THEN ValidationError
    ELSE IF Len(clean_phone(phone)) < 10 THEN ValidationError
    ELSE IF email = << >> \/ strip(email) = << >> THEN ValidationError
    ELSE IF ~patron_email(strip(email)) THEN ValidationError
    ELSE ""

\* Client(name=, phone=, email=) at clock value t: the fields as given
Client(name, phone, email, t) ==
    [ name |-> name, phone |-> phone, email |-> email, services |-> << >>,
      client_id |-> iniciales_de(split_ws(strip(name))) \o << "_" >> \o strftime_sello(t),
      registration_date |-> strftime_fecha(t) ]

\* Client.normalized_name
normalized_name(name) == colapsar_espacios(lower(strip(name)))

\* Client.add_service at clock value t: [error, client]
add_service(client, description, t) ==
    IF description = << >> \/ strip(description) = << >>
    THEN [ error |-> ValidationError, client |-> client ]
    ELSE [ error |-> "",
           client |-> [ client EXCEPT !.services =
                            Append(@, [ description |-> strip(description),
                                        date_requested |-> strftime_fecha(t) ]) ] ]

RECURSIVE service_lines(_)
service_lines(services) ==
    IF services = << >> THEN << >>
    ELSE << << "-", " " >> \o services[1].description \o << " ", "(" >>
               \o services[1].date_requested \o << ")" >> >>
             \o service_lines(Tail(services))

\* Client.to_file_format
to_file_format(client) ==
    join_nl(<< << "N", "a", "m", "e", ":", " " >> \o client.name,
               << "C", "l", "i", "e", "n", "t", "_", "I", "D", ":", " " >> \o client.client_id,
               << "P", "h", "o", "n", "e", ":", " " >> \o client.phone,
               << "E", "m", "a", "i", "l", ":", " " >> \o client.email,
               << "R", "e", "g", "i", "s", "t", "r", "a", "t", "i", "o", "n",
                  "D", "a", "t", "e", ":", " " >> \o client.registration_date,
               << "S", "e", "r", "v", "i", "c", "e", "s", ":" >> >>
            \o (IF client.services # << >> THEN service_lines(client.services)
                ELSE << << "-", " ", "N", "o", " ", "s", "e", "r", "v", "i", "c", "e", "s", " ",
                           "r", "e", "g", "i", "s", "t", "e", "r", "e", "d", " ",
                           "y", "e", "t" >> >>))

\* the keys of _clients_cache
keys(cache) == { cache[i].normalized_name : i \in 1..Len(cache) }

\* ClientManager.create_client; f = "write" makes write_text fail on opening
\* the file
create_client(cache, dir, name, phone, email, first_service, f, t) ==
    LET guardado(client) ==
            IF normalized_name(client.name) \in keys(cache)
               \/ normalized_name(client.name) \in DOMAIN dir
            THEN [ cache |-> cache, dir |-> dir, res |-> ClientExistsError,
                   ret |-> << >>, falla |-> "ninguna" ]
            ELSE IF f = "write"
            THEN [ cache |-> cache, dir |-> dir, res |-> FileOperationError,
                   ret |-> << >>, falla |-> "write" ]
            ELSE [ cache |-> Append(cache, [ normalized_name |-> normalized_name(client.name),
                                             client |-> client ]),
                   dir |-> poner(dir, normalized_name(client.name), to_file_format(client)),
                   res |-> "ok", ret |-> << client >>, falla |-> "ninguna" ]
        servido(a) ==
            IF a.error # ""
            THEN [ cache |-> cache, dir |-> dir, res |-> a.error, ret |-> << >>,
                   falla |-> "ninguna" ]
            ELSE guardado(a.client)
    IN IF validate(name, phone, email) # ""
       THEN [ cache |-> cache, dir |-> dir, res |-> validate(name, phone, email),
              ret |-> << >>, falla |-> "ninguna" ]
       ELSE servido(add_service(Client(name, phone, email, t), first_service, t))

\* matching_clients.sort(key=lambda c: c.name), one insertion: stable
RECURSIVE insert_by_name(_, _)
insert_by_name(clients, c) ==
    IF clients = << >> THEN << c >>
    ELSE IF menor(c.name, Head(clients).name) THEN << c >> \o clients
    ELSE << Head(clients) >> \o insert_by_name(Tail(clients), c)

RECURSIVE sort_by_name(_)
sort_by_name(clients) ==
    IF clients = << >> THEN << >>
    ELSE insert_by_name(sort_by_name(SubSeq(clients, 1, Len(clients) - 1)),
                        clients[Len(clients)])

\* ClientManager.search_clients
search_clients(cache, dir, query) ==
    LET matching_clients(q) ==
            SelectSeq([ i \in 1..Len(cache) |-> cache[i].client ],
                      LAMBDA client : \/ contiene(lower(client.name), q)
                                      \/ contiene(lower(client.email), q)
                                      \/ contiene(client.phone, q))
    IN [ cache |-> cache, dir |-> dir, res |-> "ok",
         ret |-> << sort_by_name(matching_clients(strip(lower(query)))) >>,
         falla |-> "ninguna" ]

\* the arguments of the calls: names that differ in case, a phone written
\* with separators, queries (nombres_buscar) of each kind
CasosSearch ==
    { [ nombres_crear |-> { << "J", "o", " ", "L", "i" >>, << "L", "i", "l", "y" >> },
        nombres_buscar |-> { << "L", "I" >>, << " ", "l", "i" >>, << "5", "5", "5", "1" >>,
                             << "-" >>, << "a", "@", "B" >>, << "z" >> },
        telefonos |-> { << "5", "5", "5", "-", "1", "2", "3", "-", "4", "5", "6", "7" >>,
                        << "1", "2", "3" >> },
        correos |-> { << "A", "@", "b", ".", "c", "o" >> },
        descripciones |-> { << "x" >> } ] }

\* a new ClientManager on an empty data directory
InitSearch ==
    /\ cache_clientes = vacio
    /\ disco = vacio
    /\ reloj = 0
    /\ ultimo = sin_llamada
    /\ llamadas = 0
    /\ caso \in CasosSearch
    /\ alias = { }
    /\ orden = << >>
    /\ clients_cache = << >>
    /\ data_directory = vacio

\* a call of the ClientManager returns or raises
done(op, name, phone, email, description, r) ==
    /\ clients_cache' = r.cache
    /\ data_directory' = r.dir
    /\ ultimo' = llamada(op, name, phone, email, description, r)
    /\ llamadas' = llamadas + 1
    /\ UNCHANGED << cache_clientes, disco, reloj, caso, alias, orden >>

CreateClient ==
    /\ llamadas < MaxCalls
    /\ \E name \in caso.nombres_crear, phone \in caso.telefonos, email \in caso.correos,
          first_service \in caso.descripciones, f \in { "ninguna", "write" } :
        done("create_client", name, phone, email, first_service,
             create_client(clients_cache, data_directory, name, phone, email,
                           first_service, f, reloj))

\* the query is recorded as the name of the call
SearchClients ==
    /\ llamadas < MaxCalls
    /\ \E query \in caso.nombres_buscar :
        done("search_clients", query, << >>, << >>, << >>,
             search_clients(clients_cache, data_directory, query))

NextSearch ==
    \/ CreateClient
    \/ SearchClients
    \/ Tic

SpecSearch == InitSearch /\ [][NextSearch]_vars

\* re.sub(r'[^\d]', '', phone): the digits of a phone
digits_only(phone) == re_sub_fuera(phone, SetDigitos)

\* C20: a search_clients call returns; afterwards every file of the data
\* directory has its stem among the keys of the cache; the list holds every
\* cached record whose name or email contains the query, case ignored, or
\* whose phone reduced to its digits contains the query, holds no other
\* record, holds each once, and is in ascending order of name.
C20_Search ==
    [][ ( /\ llamadas' = llamadas + 1
          /\ ultimo'.op = "search_clients" )
        => LET query == ultimo'.nombre
               found == ultimo'.ret[1]
               matches(client) ==
                   \/ contiene(lower(client.name), lower(query))
                   \/ contiene(lower(client.email), lower(query))
                   \/ contiene(digits_only(client.phone), query)
               expected == { i \in 1..Len(clients_cache') : matches(clients_cache'[i].client) }
           IN /\ ultimo'.res = "ok"
              /\ DOMAIN data_directory' \subseteq keys(clients_cache')
              /\ \A i \in 1..Len(clients_cache') :
                  i \in expected <=> clients_cache'[i].client \in Rango(found)
              /\ Len(found) = Cardinality(expected)
              /\ \A i, j \in 1..Len(found) : i < j => ~menor(found[j].name, found[i].name) ]_vars

\* C21: the key of a key is the key itself, and obtener_cliente called with
\* the key of a name returns the record obtener_cliente returned for the
\* name.  Stated in the state an obtener_cliente call has returned in, for a
\* second call made with the key in that state.
C21_ClaveIdempotente ==
    ( ultimo.op = "obtener_cliente" /\ ultimo.res = "ok" )
    => LET misma(k, r) ==
               /\ nombre_normalizado(k) = k
               /\ r.res = "ok"
               /\ r.ret = ultimo.ret
           por_clave(k) ==
               misma(k, obtener_cliente(cache_clientes, disco, k, "ninguna", reloj))
       IN por_clave(clave_de(ultimo.nombre))

\* C22: a crear_cliente call whose input fails validation ends as the same
\* call ends on an empty cache and an empty directory, and no filesystem
\* failure takes effect in it: the validation error is raised before the
\* store looks at the directory.
C22_ValidacionAntesDeArchivo ==
    [][ ( /\ llamadas' = llamadas + 1
          /\ ultimo'.op = "crear_cliente"
          /\ entrada_invalida(ultimo') )
        => /\ ultimo'.falla = "ninguna"
           /\ ultimo'.res = crear_cliente(vacio, vacio, ultimo'.nombre, ultimo'.telefono,
                                          ultimo'.email, ultimo'.descripcion,
                                          "ninguna", reloj).res ]_vars

\* C23: an obtener_cliente, listar_todos_clientes or obtener_estadisticas
\* call leaves every record of the cache as it was, whatever its file holds;
\* obtener_cliente of a cached key returns the cached record with no read of
\* the file (no read failure takes effect), and the list holds the cached
\* records.
C23_SinRelectura ==
    [][ ( /\ llamadas' = llamadas + 1
          /\ ultimo'.op \in { "obtener_cliente", "listar_todos_clientes",
                              "obtener_estadisticas" } )
        => /\ \A k \in DOMAIN cache_clientes :
               k \in DOMAIN cache_clientes' /\ cache_clientes'[k] = cache_clientes[k]
           /\ ( /\ ultimo'.op = "obtener_cliente"
                /\ ultimo'.res = "ok"
                /\ clave_de(ultimo'.nombre) \in DOMAIN cache_clientes )
                => /\ ultimo'.ret = << cache_clientes[clave_de(ultimo'.nombre)] >>
                   /\ ultimo'.falla = "ninguna"
           /\ ultimo'.op = "listar_todos_clientes"
                => \A k \in DOMAIN cache_clientes :
                       cache_clientes[k] \in Rango(ultimo'.ret[1]) ]_vars

\* C23 witness: a list was returned while a cached record differs from the
\* record its file decodes to
C23_Testigo ==
    /\ ultimo.op = "listar_todos_clientes"
    /\ \E k \in DOMAIN cache_clientes \cap DOMAIN disco :
        /\ legible(k)
        /\ desde_archivo(disco[k], reloj).cliente # cache_clientes[k]

\* the file of stem s is loadable: obtener_cliente of the name of the record
\* it decodes to, on a new ClienteManager, returns
cargable(s) ==
    /\ legible(s)
    /\ obtener_cliente(vacio, disco, desde_archivo(disco[s], reloj).cliente.nombre,
                       "ninguna", reloj).res = "ok"

\* C24: a listar_todos_clientes or obtener_estadisticas call made while a
\* file of the directory cannot be read or decoded returns; the file gets no
\* key in the cache, and every other file that is loadable has its stem in
\* the cache afterwards.
C24_OmiteIlegibles ==
    [][ ( /\ llamadas' = llamadas + 1
          /\ ultimo'.op \in { "listar_todos_clientes", "obtener_estadisticas" }
          /\ \E s \in DOMAIN disco \ DOMAIN cache_clientes : ~legible(s) )
        => /\ ultimo'.res = "ok"
           /\ \A s \in DOMAIN disco \ DOMAIN cache_clientes :
               ~legible(s) => s \notin DOMAIN cache_clientes'
           /\ ultimo'.falla = "ninguna"
                => \A s \in DOMAIN disco : cargable(s) => s \in DOMAIN cache_clientes' ]_vars

\* the fields desde_archivo reads from the lines of a file
campos_leidos(contenido_archivo) ==
    leer_lineas([ nombre |-> << >>, telefono |-> << >>, email |-> << >>,
                  id_cliente |-> << >>, fecha_registro |-> << >>,
                  servicios_seccion |-> FALSE, servicios_encontrados |-> << >> ],
                split(strip(contenido_archivo), "\n"))

\* the obtener_cliente call that made ultimo' had to read the file of its key,
\* the read went through, and the file has a Nombre, a Telefono and a Correo
se_leyo_archivo(u) ==
    /\ u.op = "obtener_cliente"
    /\ u.falla = "ninguna"
    /\ clave_de(u.nombre) \notin DOMAIN cache_clientes
    /\ clave_de(u.nombre) \in DOMAIN disco
    /\ LET con_campos(e) == e.nombre # << >> /\ e.telefono # << >> /\ e.email # << >>
       IN con_campos(campos_leidos(disco[clave_de(u.nombre)]))

\* C25: obtener_cliente of a name whose file has the Nombre, Telefono and
\* Correo lines returns the record, with the telefono and the email that the
\* file holds, whatever their format.
C25_SinRevalidar ==
    [][ ( llamadas' = llamadas + 1 /\ se_leyo_archivo(ultimo') )
        => LET igual(e) == /\ ultimo'.res = "ok"
                           /\ ultimo'.ret[1].telefono = e.telefono
                           /\ ultimo'.ret[1].email = e.email
           IN igual(campos_leidos(disco[clave_de(ultimo'.nombre)])) ]_vars

\* the services a file holds: the description and the text in parentheses of
\* each service line, empty when the line has none
RECURSIVE servicios_guardados(_)
servicios_guardados(encontrados) ==
    IF encontrados = << >> THEN << >>
    ELSE << [ descripcion |-> strip(encontrados[1][1]), fecha_solicitud |-> encontrados[1][2] ] >>
             \o servicios_guardados(Tail(encontrados))

\* C26: a record that obtener_cliente loads from its file has, for every
\* service line, a service whose fecha_solicitud is the text the line holds
\* in parentheses, and an empty one when the line holds none; a file whose
\* Nombre, Telefono and Correo are valid decodes whatever its service lines.
C26_FechaGuardada ==
    [][ ( llamadas' = llamadas + 1 /\ se_leyo_archivo(ultimo') )
        => LET guardada(e) ==
                   /\ Cliente(e.nombre, e.telefono, e.email, reloj).error = ""
                        => legible(clave_de(ultimo'.nombre))
                   /\ ultimo'.res = "ok"
                        => ultimo'.ret[1].servicios = servicios_guardados(e.servicios_encontrados)
           IN guardada(campos_leidos(disco[clave_de(ultimo'.nombre)])) ]_vars

\* the call recorded in u is a crear_cliente, agregar_servicio_cliente or
\* eliminar_cliente that returned
exitosa(u) ==
    /\ u.op \in { "crear_cliente", "agregar_servicio_cliente", "eliminar_cliente" }
    /\ u.res = "ok"

\* C27: after one or two calls of crear_cliente, agregar_servicio_cliente and
\* eliminar_cliente that all returned, made by one ClienteManager on an empty
\* directory, listar_todos_clientes of a new ClienteManager on the directory
\* returns the list that listar_todos_clientes of the first one returns.
C27_InstanciaNueva ==
    [][ ( /\ llamadas' = llamadas + 1
          /\ exitosa(ultimo')
          /\ llamadas = 0 \/ ( llamadas = 1 /\ exitosa(ultimo) ) )
        => \A archivos_clientes \in glob_txt(disco') :
             listar_todos_clientes(vacio, << >>, disco', archivos_clientes, { }, reloj').ret
               = listar_todos_clientes(cache_clientes', orden', disco', archivos_clientes,
                                       { }, reloj').ret ]_vars

\* C28: a crear_cliente call that raises ClienteExisteError leaves every file
\* of the directory with the content it had and the cache with the keys and
\* the records it had.
C28_ExisteNoCambia ==
    [][ ( /\ llamadas' = llamadas + 1
          /\ ultimo'.op = "crear_cliente"
          /\ ultimo'.res = ClienteExisteError )
        => /\ disco' = disco
           /\ cache_clientes' = cache_clientes ]_vars

\* a crear_cliente call has raised ClienteExisteError for a name whose file
\* holds a first service other than the one the call brought
C28_Testigo ==
    /\ ultimo.op = "crear_cliente"
    /\ ultimo.res = ClienteExisteError
    /\ clave_de(ultimo.nombre) \in DOMAIN disco
    /\ legible(clave_de(ultimo.nombre))
    /\ LET otro(c) == /\ c.servicios # << >>
                      /\ c.servicios[1].descripcion # strip(ultimo.descripcion)
       IN otro(desde_archivo(disco[clave_de(ultimo.nombre)], reloj).cliente)

\* C29: after an eliminar_cliente call that returned, crear_cliente of the
\* same name with valid data returns, and the record it puts in the cache and
\* the record its file decodes to hold one service, the new one.
C29_CrearTrasEliminar ==
    ( ultimo.op = "eliminar_cliente" /\ ultimo.res = "ok" )
    => \A telefono \in caso.telefonos, email \in caso.correos,
          primer_servicio \in caso.descripciones :
         LET nuevo == << Servicio(primer_servicio, << >>, reloj) >>
             creado(r, k) ==
                 /\ r.res = "ok"
                 /\ k \in DOMAIN r.cache /\ r.cache[k].servicios = nuevo
                 /\ k \in DOMAIN r.disco
                 /\ desde_archivo(r.disco[k], reloj).cliente.servicios = nuevo
         IN ( /\ Cliente(ultimo.nombre, telefono, email, reloj).error = ""
              /\ strip(primer_servicio) # << >> )
            => creado(crear_cliente(cache_clientes, disco, ultimo.nombre, telefono, email,
                                    primer_servicio, "ninguna", reloj),
                      clave_de(ultimo.nombre))

\* the number of services of the record of key k: that of the cached record,
\* else that of the record its file decodes to, else -1
num_servicios(cache, dsk, k, t) ==
    LET en_archivo(d) == IF d.error = "" THEN Len(d.cliente[1].servicios) ELSE -1
    IN IF k \in DOMAIN cache THEN Len(cache[k].servicios)
       ELSE en_archivo(cargar_cliente_desde_archivo(dsk, k, "ninguna", t))

\* the number of services of the record that the file of key k decodes to,
\* -1 when there is no file or it does not decode
num_servicios_archivo(dsk, k, t) == num_servicios(vacio, dsk, k, t)

\* C30: after every step, every cached record and every record that a file
\* decodes to holds at least one service; no step makes the number of
\* services of a cached record, or of the record in a file, smaller; and after
\* a crear_cliente or agregar_servicio_cliente call that returned, a new
\* ClienteManager finds in no record fewer services than the cache held.
C30_AlMenosUnServicio ==
    [][ /\ \A k \in DOMAIN cache_clientes' : Len(cache_clientes'[k].servicios) >= 1
        /\ \A k \in DOMAIN disco' : num_servicios_archivo(disco', k, reloj') # 0
        /\ \A k \in DOMAIN cache_clientes \cap DOMAIN cache_clientes' :
             Len(cache_clientes'[k].servicios) >= Len(cache_clientes[k].servicios)
        /\ \A k \in DOMAIN disco \cap DOMAIN disco' :
             \/ num_servicios_archivo(disco', k, reloj') = -1
             \/ num_servicios_archivo(disco', k, reloj')
                  >= num_servicios_archivo(disco, k, reloj)
        /\ ( exitosa(ultimo) /\ ultimo.op # "eliminar_cliente" )
             => \A k \in DOMAIN cache_clientes \cap DOMAIN disco' :
                  \/ num_servicios(cache_clientes', disco', k, reloj') = -1
                  \/ num_servicios(cache_clientes', disco', k, reloj')
                       >= Len(cache_clientes[k].servicios) ]_vars

====
